---- MODULE Spec2Model ----
(***************************************************************************)
(* A model of the fiber-channel propagation engine of NFDMLab:             *)
(* Links/DDFSplitStep.py (the link), Links/DDF_profile.py (the axial       *)
(* profile), Links/_DDFssprop.py and Links/_ssprop.py (the split-step      *)
(* integrators).                                                           *)
(*                                                                         *)
(* Numbers.  The code computes with floating-point complex samples.  The   *)
(* model computes exactly on symbolic values:                              *)
(*   - a real exponent is a pair [r, l] standing for r + l*ln(10)/10; the  *)
(*     two parts never mix because ln(10) is irrational;                   *)
(*   - a field is the input array it was computed from together with the   *)
(*     sequence of operators applied to it (half linear steps, nonlinear   *)
(*     rotations, real scalings, noise additions).  Operators that are the *)
(*     identity (a zero phase, a zero exponent, a zero noise amplitude)    *)
(*     leave no trace, and consecutive real scalings add their exponents.  *)
(* Two fields with the same representation are equal in exact arithmetic;  *)
(* rounding errors of the floating-point evaluation are not modelled.      *)
(***************************************************************************)
EXTENDS Integers, Sequences, FiniteSets, TLC

(***************************************************************************)
(* Bounds of the model.                                                    *)
(***************************************************************************)
MaxAlpha == 2
MaxNz == 2
MaxSpans == 2
MaxCalls == 2
MaxIter == 2

(***************************************************************************)
(* Real numbers of the form r + l*ln(10)/10.                               *)
(***************************************************************************)
Num(r, l) == [r |-> r, l |-> l]
Zero == Num(0, 0)
Plus(a, b) == Num(a.r + b.r, a.l + b.l)
Times(k, a) == Num(k * a.r, k * a.l)
Abs(x) == IF x < 0 THEN -x ELSE x

(* alpha * np.log(10) * 0.1 for a plain number alpha *)
TimesLn10Tenth(a) == Num(0, a)

(***************************************************************************)
(* A scalar is a one-element sequence flagged vec = FALSE, an array a      *)
(* sequence flagged vec = TRUE; .size is the length in both cases.         *)
(***************************************************************************)
Scalar(x) == [vec |-> FALSE, v |-> <<x>>]
Array(s) == [vec |-> TRUE, v |-> s]
Size(a) == Len(a.v)

(***************************************************************************)
(* Fields.  n is the number of samples, src the input array the field was  *)
(* computed from, ops the operators applied so far.                        *)
(***************************************************************************)
Field(n, src) == [n |-> n, src |-> src, ops |-> <<>>]
Push(f, tok) == [f EXCEPT !.ops = Append(@, tok)]

(* A field of zeros: the array 0 is the input that is identically zero.    *)
(* The transforms and the pointwise factors of the integrators keep it     *)
(* zero; only an added noise changes it.                                   *)
IsZeroField(u) == u.src = 0 /\ u.ops = <<>>
Multiply(f, tok) == IF IsZeroField(f) THEN f ELSE Push(f, tok)
Front(s) == SubSeq(s, 1, Len(s) - 1)

(* The coefficient of a profile entry: s is its sign (0 for a zero value),  *)
(* m its magnitude at z = 0, b0 the start dispersion the radius is solved   *)
(* from and z the decay exponent alpha*dz*i of the step; root tells whether *)
(* the radius is the real root of the cubic or the real part of one of its  *)
(* two non-real roots.                                                      *)
Coef(s, m, b0, z) == [s |-> s, m |-> m, b0 |-> b0, z |-> z, root |-> "real"]
NonReal(c) == [c EXCEPT !.root = "nonreal"]
ZeroCoef == Coef(0, 0, 0, Zero)

(* a fault: the half step also damps the spectrum *)
HalfStep_Damped(f, beta, dt, dz) ==
  IF beta.s = 0 THEN f
  ELSE Push(Multiply(f, [k |-> "lin", c |-> beta, dt |-> dt, dz |-> dz]),
            [k |-> "scale", e |-> Num(-1, 0)])
(* np.fft.ifft(halfstep*np.fft.fft(u)) with halfstep = exp(1j*beta*w**2/2*dz/2) *)
HalfStep(f, beta, dt, dz) ==
  IF beta.s = 0 THEN f
  ELSE Multiply(f, [k |-> "lin", c |-> beta, dt |-> dt, dz |-> dz])

(* u*np.exp(1j*gamma*(np.abs(ref)**2*dz)), ref being the field made of the   *)
(* first `at` operators of u                                                 *)
Rotate(f, gamma, at, dz) ==
  IF gamma.s = 0 THEN f
  ELSE Multiply(f, [k |-> "nl", c |-> gamma, at |-> at, dz |-> dz])

(* u*np.exp(e/4): the exponents of the scalings are kept in quarters, so    *)
(* that exp(-alpha/2*dz) is e = -2*alpha*dz and the power |u|^2 is scaled   *)
(* by exp(e/2)                                                               *)
ScaleBy(f, e) ==
  IF e = Zero \/ IsZeroField(f) THEN f
  ELSE IF Len(f.ops) > 0 /\ f.ops[Len(f.ops)].k = "scale"
       THEN LET s == Plus(f.ops[Len(f.ops)].e, e)
            IN  IF s = Zero THEN [f EXCEPT !.ops = Front(@)]
                ELSE [f EXCEPT !.ops[Len(f.ops)] = [k |-> "scale", e |-> s]]
       ELSE Push(f, [k |-> "scale", e |-> e])

(* u*np.exp(-field_attenuation*dz) for an array field_attenuation of the    *)
(* length of u: sample j is scaled by its own exponent                      *)
ScaleEach(f, es) == Multiply(f, [k |-> "vscale", e |-> es])

(***************************************************************************)
(* Links/DDF_profile.py.  The radius of step i is the real part of the     *)
(* first root numpy returns for the cubic                                  *)
(*   8*kappa*R^3 - 20*kappa*R^2 - a*exp(-2*alpha*dz*i),  a = BETA20*R0^2,  *)
(* and BETA2 and GAMMA are algebraic functions of it.                      *)
(*   - For BETA20 > 0 the cubic has one real root (R0 at i = 0) and two    *)
(*     non-real ones, whose real part (2.5 - real root)/2 is negative.     *)
(*     np.roots returns the eigenvalues of the companion matrix in the     *)
(*     order LAPACK finds them, which numpy does not specify: Rad_roots0   *)
(*     says whether the first one is the real root or a non-real one; it   *)
(*     is the same for every call in a process.  With the real root        *)
(*     BETA2 = -kappa*(8*Rad-20) is -BETA20 and GAMMA is +GAMMA0 where the *)
(*     decay is zero; with the real part of a non-real root BETA2 is       *)
(*     positive (BETA20/2 + 20*kappa at i = 0) and GAMMA is                *)
(*     GAMMA0*R0^2/Rad^2, neither equal to the start value.                *)
(*   - For BETA20 = 0 the cubic degenerates (a = 0): np.roots strips the   *)
(*     trailing zeros and returns 2.5 first, for every step.               *)
(* The entry is kept as the symbolic value Coef(sign, start magnitude,     *)
(* start dispersion, decay exponent).                                      *)
(*   - nz < 0: np.zeros(nz) raises ValueError (line 66);                   *)
(*   - an array alpha makes the coefficient list p ragged and np.roots     *)
(*     raises ValueError in the first pass of the loop;                    *)
(*   - nz = 0 leaves the arrays empty and profile['BETA2'][0] raises       *)
(*     IndexError (line 83).                                               *)
(***************************************************************************)
NoProfile == [err |-> "none", BETA2 |-> <<>>, GAMMA |-> <<>>]

(* a fault: without steps an empty profile is returned *)
Get_Beta_Gamma_Profile_Empty(alpha, beta20, gamma0, dz, nz, Rad_roots0) ==
  LET BETA20 == Abs(beta20)
      GAMMA0 == Abs(gamma0)
      decay(i) == IF BETA20 = 0 THEN Zero ELSE Times(dz * i, alpha.v[1])
      Rad(c) == IF BETA20 # 0 /\ Rad_roots0 = "nonreal" THEN NonReal(c) ELSE c
      B(i) == IF BETA20 = 0 THEN ZeroCoef
              ELSE IF Rad_roots0 = "nonreal"
              THEN NonReal(Coef(1, BETA20, BETA20, decay(i)))
              ELSE Coef(-1, BETA20, BETA20, decay(i))
      G(i) == IF GAMMA0 = 0 THEN ZeroCoef
              ELSE Rad(Coef(1, GAMMA0, BETA20, decay(i)))
  IN  IF nz >= 1 /\ alpha.vec
      THEN [NoProfile EXCEPT !.err = "ValueError"]
      ELSE [err |-> "none",
            BETA2 |-> [i \in 1..nz |-> B(i - 1)],
            GAMMA |-> [i \in 1..nz |-> G(i - 1)]]
Get_Beta_Gamma_Profile(alpha, beta20, gamma0, dz, nz, Rad_roots0) ==
  LET BETA20 == Abs(beta20)
      GAMMA0 == Abs(gamma0)
      half == alpha.v[1]
      decay(i) == IF BETA20 = 0 THEN Zero ELSE Times(dz * i, half)
      Rad(c) == IF BETA20 # 0 /\ Rad_roots0 = "nonreal" THEN NonReal(c) ELSE c
      B(i) == IF BETA20 = 0 THEN ZeroCoef
              ELSE IF Rad_roots0 = "nonreal"
              THEN NonReal(Coef(1, BETA20, BETA20, decay(i)))
              ELSE Coef(-1, BETA20, BETA20, decay(i))
      G(i) == IF GAMMA0 = 0 THEN ZeroCoef
              ELSE Rad(Coef(1, GAMMA0, BETA20, decay(i)))
  IN  IF nz < 0 \/ (nz >= 1 /\ alpha.vec)
      THEN [NoProfile EXCEPT !.err = "ValueError"]
      ELSE IF nz = 0
      THEN [NoProfile EXCEPT !.err = "IndexError"]
      ELSE [err |-> "none",
            BETA2 |-> [i \in 1..nz |-> B(i - 1)],
            GAMMA |-> [i \in 1..nz |-> G(i - 1)]]

(***************************************************************************)
(* Links/_DDFssprop.py.  An attribute that is still None is passed as      *)
(* [some |-> FALSE]; subscripting it raises TypeError.                     *)
(***************************************************************************)
None == [some |-> FALSE, v |-> <<>>]
Some(x) == [some |-> TRUE, v |-> x]

(* a fault: the step ends without the loss factor *)
Attenuate_None(uv, alpha, dz) == [err |-> "none", val |-> uv]
(* u1 = uv*np.exp(-field_attenuation*dz), field_attenuation = alpha/2:     *)
(* a scalar (or one-element array) scales every sample, an array of the    *)
(* length of the field scales sample by sample, any other array cannot be  *)
(* broadcast                                                               *)
Attenuate(uv, alpha, dz) ==
  IF Size(alpha) = 1
  THEN [err |-> "none", val |-> ScaleBy(uv, Times(-2 * dz, alpha.v[1]))]
  ELSE IF Size(alpha) = uv.n
  THEN [err |-> "none",
        val |-> ScaleEach(uv, [j \in 1..Size(alpha) |-> Times(-2 * dz, alpha.v[j])])]
  ELSE [err |-> "ValueError", val |-> uv]

(* one pass of the loop over iz (lines 78-85) *)
DDFstep(u1, iz, dt, dz, alpha, D, R) ==
  LET beta == D[iz + 1]
      gamma == R[iz + 1]
      uhalf == HalfStep(u1, beta, dt, dz)
      uv == Rotate(uhalf, gamma, Len(u1.ops), dz)
  IN  Attenuate(HalfStep(uv, beta, dt, dz), alpha, dz)

RECURSIVE DDFloop(_, _, _, _, _, _, _, _)
DDFloop(u1, iz, dt, dz, nz, alpha, D, R) ==
  IF iz >= nz THEN [err |-> "none", val |-> u1, steps |-> iz]
  ELSE IF ~D.some \/ ~R.some
  THEN [err |-> "TypeError", val |-> u1, steps |-> iz]
  ELSE IF iz + 1 > Len(D.v) \/ iz + 1 > Len(R.v)
  THEN [err |-> "IndexError", val |-> u1, steps |-> iz]
  ELSE LET r == DDFstep(u1, iz, dt, dz, alpha, D.v, R.v)
       IN  IF r.err # "none" THEN [err |-> r.err, val |-> u1, steps |-> iz]
           ELSE DDFloop(r.val, iz + 1, dt, dz, nz, alpha, D, R)

(* a fault: the steps write into the argument, no new array is made *)
DDFssprop_InPlace(u0, dt, dz, nz, alpha, D, R) ==
  IF u0.n % 2 # 0
  THEN [err |-> "AssertionError", val |-> u0, steps |-> 0, fresh |-> FALSE]
  ELSE LET r == DDFloop(u0, 0, dt, dz, nz, alpha, D, R)
       IN  [err |-> r.err, val |-> r.val, steps |-> r.steps, fresh |-> FALSE]

(* The result: err, the value of the returned array, the number of steps   *)
(* taken, and whether the returned array is a new one (u1 is rebound in    *)
(* every pass of the loop) or the argument u0 itself (no pass).            *)
DDFssprop(u0, dt, dz, nz, alpha, D, R) ==
  IF u0.n % 2 # 0
  THEN [err |-> "AssertionError", val |-> u0, steps |-> 0, fresh |-> FALSE]
  ELSE LET r == DDFloop(u0, 0, dt, dz, nz, alpha, D, R)
       IN  [err |-> r.err, val |-> r.val, steps |-> r.steps,
            fresh |-> r.err = "none" /\ nz >= 1]

(***************************************************************************)
(* Links/_ssprop.py, the legacy integrator.  The loss coefficient is a     *)
(* plain number here, betap the list of dispersion coefficients and gamma  *)
(* a plain number.                                                         *)
(***************************************************************************)
(* lines 80-81: halfstep is zero iff every coefficient is zero *)
AllZero(betap) == \A i \in 1..Len(betap) : betap[i] = 0

(* lines 87-90 *)
AlphaStep(alpha, iz, nz) ==
  IF nz > 1 /\ Size(alpha) = nz THEN alpha.v[iz + 1] ELSE alpha.v[1]

(* a fault: each half step applies the loss of a whole step *)
LinearHalf_FullLoss(u, alpha_step, betap, dt, dz) ==
  ScaleBy(IF AllZero(betap) THEN u
          ELSE Multiply(u, [k |-> "linp", betap |-> betap, dt |-> dt, dz |-> dz]),
          Times(-2 * dz, alpha_step))

(* np.fft.ifft(np.exp((alpha_step + halfstep)*dz/2)*np.fft.fft(u)) with     *)
(* alpha_step = -alpha/2: the dispersion operator, and the amplitude        *)
(* scaled by exp(-alpha*dz/4)                                               *)
LinearHalf(u, alpha_step, betap, dt, dz) ==
  ScaleBy(IF AllZero(betap) THEN u
          ELSE Multiply(u, [k |-> "linp", betap |-> betap, dt |-> dt, dz |-> dz]),
          Times(-dz, alpha_step))

(* line 94: uhalf*np.exp(-1j*gamma*(np.abs(u1)**2 + np.abs(u0)**2)*dz/2) *)
Rotate2(uhalf, gamma, u1, u0, dz) ==
  IF gamma = 0 THEN uhalf
  ELSE Multiply(uhalf, [k |-> "nl2", g |-> gamma, a |-> u1.ops, b |-> u0.ops,
                        dz |-> dz])

(* line 98: np.linalg.norm(uv-u1)/np.linalg.norm(u1) < tol, for tol > 0.    *)
(* For u1 = 0 the quotient is nan (numpy warns and goes on) and the test    *)
(* fails; for uv = u1 it is 0 and the test holds; otherwise the outcome     *)
(* depends on the samples, and both outcomes are possible.                  *)
Converged(uv, u1) ==
  IF IsZeroField(u1) THEN {FALSE}
  ELSE IF uv = u1 THEN {TRUE}
  ELSE BOOLEAN

(***************************************************************************)
(* Links/DDFSplitStep.py: the constructor.  The arguments are kept in      *)
(* `args`; alpha is a plain number (or an array of plain numbers), and     *)
(* npfloat tells whether dz and alpha are numpy floats (True) or Python    *)
(* floats (False), which decides how a division by zero ends; Rad_roots0   *)
(* is the order in which the numpy of the process returns the roots of the *)
(* cubic of the profile.                                                   *)
(***************************************************************************)
(* line 78: self._alpha = alpha * np.log(10) * 0.1, elementwise on an array *)
LossCoefficient(a) ==
  [vec |-> a.alpha.vec,
   v |-> [j \in 1..Len(a.alpha.v) |-> TimesLn10Tenth(a.alpha.v[j])]]

(* a fault: the gain computed from the number of steps alone *)
SpanGain_NoDz(a) ==
  [vec |-> a.alpha.vec, v |-> [j \in 1..Len(a.alpha.v) |-> a.nz * a.alpha.v[j]]]

(* line 79: self._gain = self._dz * self._nz * alpha, in dB *)
SpanGain(a) ==
  [vec |-> a.alpha.vec,
   v |-> [j \in 1..Len(a.alpha.v) |-> a.dz * a.nz * a.alpha.v[j]]]

Constructor(a) ==
  [ dt |-> a.dt,
    dz |-> a.dz,
    nz |-> a.nz,
    alpha |-> LossCoefficient(a),
    gain |-> SpanGain(a),
    beta2 |-> a.beta2,
    gamma |-> a.gamma,
    verbose |-> a.verbose,
    n_spans |-> a.n_spans,
    post_boost |-> a.post_boost,
    noise |-> a.noise,
    noise_figure |-> a.noise_figure,
    center_frequency |-> a.center_frequency,
    span_length |-> a.nz * a.dz,
    BETA2 |-> None,
    GAMMA |-> None,
    D_z |-> None,
    npfloat |-> a.npfloat,
    Rad_roots0 |-> a.Rad_roots0 ]

(* BaseLink.span_length and BaseLink.n_spans *)
span_length(link) == link.span_length
n_spans(link) == link.n_spans

(***************************************************************************)
(* _ASE_noise_power.  G = 10**(gain/10), Fn = 10**(noise_figure/10):       *)
(* G = 1 exactly iff gain = 0, and then (G*Fn - 1.0)/2.0/(G - 1.0) divides *)
(* by zero: ZeroDivisionError with Python floats; with numpy floats the    *)
(* quotient is inf, inf*(G - 1) is nan and np.max([0, nan]) is nan.        *)
(* Otherwise n_sp*(G - 1) = (G*Fn - 1)/2, positive iff gain + noise_figure *)
(* > 0, and np.max clamps a negative value to 0.                           *)
(***************************************************************************)
NoPower == [k |-> "zero", gain |-> 0, nf |-> 0, f |-> 0]

ASE_noise_power(link) ==
  LET gain == link.gain.v[1] IN
  IF link.noise = FALSE THEN [err |-> "none", P |-> NoPower]
  ELSE IF gain = 0
  THEN IF link.npfloat
       THEN [err |-> "none", P |-> [NoPower EXCEPT !.k = "nan"]]
       ELSE [err |-> "ZeroDivisionError", P |-> NoPower]
  ELSE IF gain + link.noise_figure > 0
  THEN [err |-> "none",
        P |-> [k |-> "pos", gain |-> gain, nf |-> link.noise_figure,
               f |-> link.center_frequency]]
  ELSE [err |-> "none", P |-> NoPower]

(* _ASE_noise(n_samples): the samples wgn are drawn from the process-wide  *)
(* generator np.random, whose state is `seed` before the draw, and scaled  *)
(* by c = sqrt(P/dt).  The result is the noise as an operator to add.      *)
ASE_noise(link, n_samples, seed) ==
  LET p == ASE_noise_power(link)
  IN  [err |-> p.err,
       tok |-> [k |-> "noise", P |-> p.P, dt |-> link.dt, n |-> n_samples,
                seed |-> seed]]

(* uu *= np.exp(self._gain*np.log(10)*0.05): gain*ln(10)/20 is, in         *)
(* quarters, 2*gain times ln(10)/10                                        *)
ApplyGain(link, uu) == ScaleBy(uu, Num(0, 2 * link.gain.v[1]))

(* a fault: the samples drawn are added whatever their amplitude *)
AddNoise_Always(uu, tok) == Push(uu, tok)

(* uu += noise: a noise of amplitude c = 0 adds zeros, whatever was drawn *)
AddNoise(uu, tok) == IF tok.P.k = "zero" THEN uu ELSE Push(uu, tok)

(***************************************************************************)
(* The state.                                                              *)
(*   args  the arguments the link was constructed with                     *)
(*   self  the attributes of the link object                               *)
(*   heap  the arrays that exist, by reference; 1 and 2 are the inputs the *)
(*         callers own (2 has an odd number of samples)                    *)
(*   rng   the state of the process-wide generator np.random: the number   *)
(*         of draws made so far                                            *)
(*   th    per calling thread, the frame of its transmit call: the line it *)
(*         is at (pc), the locals input, profile, uu, span_i, the value D  *)
(*         of self._BETA2 already loaded for the next _DDFssprop call, and *)
(*         what the caller sees: res, err, ret; in0 is the value the input *)
(*         array had when the call was made, steps and log record the      *)
(*         propagation steps and the operations of the call; calls counts  *)
(*         the calls the thread has made, quota the calls it will make     *)
(*   ig    the frame of a direct call of an integrator (_DDFssprop or      *)
(*         _ssprop): its arguments (arg), the line it is at (pc), the      *)
(*         locals of _ssprop, and the outcome                              *)
(*   qam   a QAMConstellation object under construction: m, n, and the     *)
(*         attributes _alphabet, _bit_matrix and _name once assigned       *)
(*   bw    the frame of a ModulationEfficiency._compute_bandwidth call:    *)
(*         the spectrum of its signal, its locals and the outcome          *)
(*   ui    the noise and path-average checkboxes of the notebook, with the *)
(*         update_alpha calls and user toggles made so far                 *)
(***************************************************************************)
VARIABLES args, self, heap, rng, th, ig, qam, bw, ui

vars == <<args, self, heap, rng, th, ig, qam, bw, ui>>

InputRefs == {1, 2}
Inputs == [r \in InputRefs |-> Field(r + 1, r)]

Idle == [pc |-> "idle", input |-> 0, in0 |-> Field(0, 0), profile |-> NoProfile,
         uu |-> 0, span_i |-> 0, D |-> None, res |-> "none", err |-> "none",
         ret |-> 0, steps |-> 0, log |-> <<>>, calls |-> 0, quota |-> MaxCalls,
         seed0 |-> 0]

Alphas ==
  {Scalar(x) : x \in 0..MaxAlpha} \cup {Array(<<1, 2>>), Array(<<1, 1, 2>>)}

Args ==
  [ dt : {1}, dz : {1, 2}, nz : -1..MaxNz, alpha : Alphas, beta2 : {0, 1},
    gamma : {0, -1}, verbose : {FALSE}, n_spans : 0..MaxSpans,
    post_boost : BOOLEAN, noise : BOOLEAN, noise_figure : {3},
    center_frequency : {1931}, npfloat : BOOLEAN,
    Rad_roots0 : {"real", "nonreal"} ]

(* with beta2 = 0 the cubic has no non-real root to come first *)
InitLink ==
  /\ args \in Args
  /\ args.beta2 = 0 => args.Rad_roots0 = "real"
  /\ self = Constructor(args)
  /\ heap = Inputs
  /\ rng = 0

NoArg == [fn |-> "none", u0 |-> Field(0, 0), dt |-> 0, dz |-> 0, nz |-> 0,
          alpha |-> Scalar(Zero), D |-> None, R |-> None, betap |-> <<>>,
          gamma |-> 0, maxiter |-> 0]
NoCall == [pc |-> "none", arg |-> NoArg, u0 |-> Field(0, 0), u1 |-> Field(0, 0),
           uhalf |-> Field(0, 0), alpha_step |-> Zero, iz |-> 0, ii |-> 0,
           fresh |-> FALSE, err |-> "none", steps |-> 0, iters |-> <<>>,
           warnings |-> 0, stop |-> <<>>]

(* the parts of the state a specification does not use *)
NoQam == [pc |-> "none", m |-> 0, n |-> 0, alphabet |-> <<>>, max2 |-> 0,
          bit_matrix |-> <<>>, name |-> 0]
NoBw == [pc |-> "none", Q |-> <<>>, percentage |-> 0, i |-> 0, max_i |-> 0,
         current_energy |-> 0, total_energy |-> 0, err |-> "none", ret |-> 0]
NoUi == [noise |-> [disabled |-> FALSE, value |-> FALSE],
         path_average |-> [disabled |-> FALSE, value |-> FALSE],
         selected_alpha |-> "none", err |-> "none", log |-> <<>>]
NoOther == qam = NoQam /\ bw = NoBw /\ ui = NoUi

Init == InitLink /\ th = [t \in {1} |-> Idle] /\ ig = NoCall /\ NoOther

(* the references still held by a caller or a frame; other arrays are gone *)
Refs(frames) ==
  InputRefs \cup
  (UNION {{frames[t].input, frames[t].uu, frames[t].ret} : t \in DOMAIN frames} \ {0})
Collect(h, frames) == [r \in (DOMAIN h \cap Refs(frames)) |-> h[r]]
Fresh(h) == CHOOSE r \in 1..(Cardinality(DOMAIN h) + 1) :
              r \notin DOMAIN h /\ \A q \in 1..(r - 1) : q \in DOMAIN h
Store(h, r, val) == [q \in DOMAIN h \cup {r} |-> IF q = r THEN val ELSE h[q]]

(* an exception leaves transmit: the locals die, the caller gets err *)
Raise(t, f, e) ==
  LET g == [f EXCEPT !.pc = "idle", !.res = "raised", !.err = e, !.uu = 0,
                     !.ret = 0, !.calls = @ + 1]
      frames == [th EXCEPT ![t] = g]
  IN  /\ th' = frames
      /\ heap' = Collect(heap, frames)

(* transmit(self, input) is called with one of the caller's arrays, or     *)
(* with the array the caller's previous call returned                      *)
Call(t) ==
  /\ th[t].pc = "idle"
  /\ th[t].calls < th[t].quota
  /\ \E r \in InputRefs \cup ({th[t].ret} \ {0}) :
       LET frames == [th EXCEPT ![t] =
                        [Idle EXCEPT !.pc = "l142", !.input = r, !.in0 = heap[r],
                                     !.calls = th[t].calls, !.quota = th[t].quota,
                                     !.seed0 = rng]]
       IN  /\ th' = frames
           /\ heap' = Collect(heap, frames)
  /\ UNCHANGED <<args, self, rng>>

(* a fault: the stored profile is dropped while the new one is computed *)
ComputeProfile_Reset(t) ==
  /\ th[t].pc = "l142"
  /\ LET profile == Get_Beta_Gamma_Profile(self.alpha, self.beta2, self.gamma,
                                           self.dz, self.nz, self.Rad_roots0)
     IN  IF profile.err # "none"
         THEN Raise(t, th[t], profile.err) /\ UNCHANGED self
         ELSE /\ th' = [th EXCEPT ![t].profile = profile, ![t].pc = "l143"]
              /\ self' = [self EXCEPT !.BETA2 = None, !.GAMMA = None]
              /\ UNCHANGED heap
  /\ UNCHANGED <<args, rng>>

(* line 142 *)
ComputeProfile(t) ==
  /\ th[t].pc = "l142"
  /\ LET profile == Get_Beta_Gamma_Profile(self.alpha, self.beta2, self.gamma,
                                           self.dz, self.nz, self.Rad_roots0)
     IN  IF profile.err # "none"
         THEN Raise(t, th[t], profile.err)
         ELSE /\ th' = [th EXCEPT ![t].profile = profile, ![t].pc = "l143"]
              /\ UNCHANGED heap
  /\ UNCHANGED <<args, self, rng>>

(* a fault: the wrong entry of the profile is stored *)
StoreBETA2_Gamma(t) ==
  /\ th[t].pc = "l143"
  /\ self' = [self EXCEPT !.BETA2 = Some(th[t].profile.GAMMA)]
  /\ th' = [th EXCEPT ![t].pc = "l144"]
  /\ UNCHANGED <<args, heap, rng>>

(* line 143 *)
StoreBETA2(t) ==
  /\ th[t].pc = "l143"
  /\ self' = [self EXCEPT !.BETA2 = Some(th[t].profile.BETA2)]
  /\ th' = [th EXCEPT ![t].pc = "l144"]
  /\ UNCHANGED <<args, heap, rng>>

(* a fault: the sign of the configured gamma is dropped on the way *)
StoreGAMMA_Abs(t) ==
  /\ th[t].pc = "l144"
  /\ self' = [self EXCEPT !.GAMMA = Some(th[t].profile.GAMMA), !.gamma = Abs(@)]
  /\ th' = [th EXCEPT ![t].pc = "l146"]
  /\ UNCHANGED <<args, heap, rng>>

(* line 144 *)
StoreGAMMA(t) ==
  /\ th[t].pc = "l144"
  /\ self' = [self EXCEPT !.GAMMA = Some(th[t].profile.GAMMA)]
  /\ th' = [th EXCEPT ![t].pc = "l146"]
  /\ UNCHANGED <<args, heap, rng>>

(* lines 146 and 156-157 *)
Branch(t) ==
  /\ th[t].pc = "l146"
  /\ IF self.n_spans = 1
     THEN th' = [th EXCEPT ![t].pc = "l147"]
     ELSE th' = [th EXCEPT ![t].pc = "l158", ![t].uu = th[t].input]
  /\ UNCHANGED <<args, self, heap, rng>>

(* a fault: the body of the loop is run before the count is looked at *)
LoopHead_Once(t) ==
  /\ th[t].pc = "l158"
  /\ IF th[t].span_i < self.n_spans \/ th[t].span_i = 0
     THEN th' = [th EXCEPT ![t].pc = "l159"]
     ELSE th' = [th EXCEPT ![t].pc = "l170"]
  /\ UNCHANGED <<args, self, heap, rng>>
(* line 158: for span_i in range(0, self._n_spans) *)
LoopHead(t) ==
  /\ th[t].pc = "l158"
  /\ IF th[t].span_i < self.n_spans
     THEN th' = [th EXCEPT ![t].pc = "l159"]
     ELSE th' = [th EXCEPT ![t].pc = "l170"]
  /\ UNCHANGED <<args, self, heap, rng>>

(* lines 147 and 159: the arguments are evaluated from left to right,      *)
(* self._BETA2 before self._GAMMA                                          *)
LoadBETA2(t, here, next) ==
  /\ th[t].pc = here
  /\ th' = [th EXCEPT ![t].D = self.BETA2, ![t].pc = next]
  /\ UNCHANGED <<args, self, heap, rng>>

(* lines 147 and 159: uu = _DDFssprop(u0, ...) *)
Propagate(t, here, u0, next) ==
  /\ th[t].pc = here
  /\ LET r == DDFssprop(heap[u0], self.dt, self.dz, self.nz, self.alpha,
                        th[t].D, self.GAMMA)
         f == [th[t] EXCEPT !.steps = @ + r.steps]
     IN  IF r.err # "none"
         THEN Raise(t, f, r.err)
         ELSE LET new == IF r.fresh THEN Fresh(heap) ELSE u0
                  g == [f EXCEPT !.uu = new, !.pc = next,
                                 !.log = Append(@, [e |-> "prop", n |-> r.steps])]
                  frames == [th EXCEPT ![t] = g]
              IN  /\ th' = frames
                  /\ heap' = Collect(Store(heap, new, r.val), frames)
  /\ UNCHANGED <<args, self, rng>>

(* lines 149-151 and 164-166 *)
CheckBoost(t, here, boost, skip) ==
  /\ th[t].pc = here
  /\ IF self.post_boost = TRUE
     THEN IF Size(self.alpha) # 1
          THEN Raise(t, th[t], "Exception")
          ELSE th' = [th EXCEPT ![t].pc = boost] /\ UNCHANGED heap
     ELSE th' = [th EXCEPT ![t] = skip] /\ UNCHANGED heap
  /\ UNCHANGED <<args, self, rng>>

(* lines 153 and 167: in place *)
Gain(t, here, next) ==
  /\ th[t].pc = here
  /\ heap' = [heap EXCEPT ![th[t].uu] = ApplyGain(self, @)]
  /\ th' = [th EXCEPT ![t].pc = next,
                      ![t].log = Append(@, [e |-> "gain", n |-> 1])]
  /\ UNCHANGED <<args, self, rng>>

(* lines 154 and 168: in place; the samples are drawn before the power is  *)
(* computed                                                                *)
Noise(t, here, after) ==
  /\ th[t].pc = here
  /\ rng' = rng + 1
  /\ LET uu == th[t].uu
         r == ASE_noise(self, heap[uu].n, rng)
     IN  IF r.err # "none"
         THEN Raise(t, th[t], r.err)
         ELSE /\ heap' = [heap EXCEPT ![uu] = AddNoise(@, r.tok)]
              /\ th' = [th EXCEPT ![t] =
                          [after EXCEPT !.log = Append(@, [e |-> "noise", n |-> 1])]]
  /\ UNCHANGED <<args, self>>

(* the single-span branch, lines 147-154 *)
LoadBETA2_1(t) == LoadBETA2(t, "l147", "l147c")
Propagate_1(t) == Propagate(t, "l147c", th[t].input, "l149")
(* a fault: without boost the noise is still added *)
CheckBoost_1_Noise(t) == CheckBoost(t, "l149", "l153", [th[t] EXCEPT !.pc = "l154"])
CheckBoost_1(t) == CheckBoost(t, "l149", "l153", [th[t] EXCEPT !.pc = "l170"])
Gain_1(t) == Gain(t, "l153", "l154")
Noise_1(t) == Noise(t, "l154", [th[t] EXCEPT !.pc = "l170"])

(* the loop over the spans, lines 158-168 *)
NextSpan(f) == [f EXCEPT !.pc = "l158", !.span_i = @ + 1]
LoadBETA2_N(t) == LoadBETA2(t, "l159", "l159c")
(* a fault: every span starts from the input again *)
Propagate_N_FromInput(t) == Propagate(t, "l159c", th[t].input, "l164")
Propagate_N(t) == Propagate(t, "l159c", th[t].uu, "l164")
(* a fault: the gain is skipped and the noise added to the attenuated field *)
CheckBoost_N_NoGain(t) == CheckBoost(t, "l164", "l168", NextSpan(th[t]))
CheckBoost_N(t) == CheckBoost(t, "l164", "l167", NextSpan(th[t]))
Gain_N(t) == Gain(t, "l167", "l168")
Noise_N(t) == Noise(t, "l168", NextSpan(th[t]))

(* line 170 *)
Return(t) ==
  /\ th[t].pc = "l170"
  /\ LET g == [th[t] EXCEPT !.pc = "idle", !.res = "returned", !.ret = th[t].uu,
                            !.uu = 0, !.calls = @ + 1]
         frames == [th EXCEPT ![t] = g]
     IN  /\ th' = frames
         /\ heap' = Collect(heap, frames)
  /\ UNCHANGED <<args, self, rng>>

Next ==
  \/ \E t \in DOMAIN th : Call(t) /\ UNCHANGED <<ig, qam, bw, ui>>
  \/ \E t \in DOMAIN th : ComputeProfile(t) /\ UNCHANGED <<ig, qam, bw, ui>>
  \/ \E t \in DOMAIN th : StoreBETA2(t) /\ UNCHANGED <<ig, qam, bw, ui>>
  \/ \E t \in DOMAIN th : StoreGAMMA(t) /\ UNCHANGED <<ig, qam, bw, ui>>
  \/ \E t \in DOMAIN th : Branch(t) /\ UNCHANGED <<ig, qam, bw, ui>>
  \/ \E t \in DOMAIN th : LoadBETA2_1(t) /\ UNCHANGED <<ig, qam, bw, ui>>
  \/ \E t \in DOMAIN th : Propagate_1(t) /\ UNCHANGED <<ig, qam, bw, ui>>
  \/ \E t \in DOMAIN th : CheckBoost_1(t) /\ UNCHANGED <<ig, qam, bw, ui>>
  \/ \E t \in DOMAIN th : Gain_1(t) /\ UNCHANGED <<ig, qam, bw, ui>>
  \/ \E t \in DOMAIN th : Noise_1(t) /\ UNCHANGED <<ig, qam, bw, ui>>
  \/ \E t \in DOMAIN th : LoopHead(t) /\ UNCHANGED <<ig, qam, bw, ui>>
  \/ \E t \in DOMAIN th : LoadBETA2_N(t) /\ UNCHANGED <<ig, qam, bw, ui>>
  \/ \E t \in DOMAIN th : Propagate_N(t) /\ UNCHANGED <<ig, qam, bw, ui>>
  \/ \E t \in DOMAIN th : CheckBoost_N(t) /\ UNCHANGED <<ig, qam, bw, ui>>
  \/ \E t \in DOMAIN th : Gain_N(t) /\ UNCHANGED <<ig, qam, bw, ui>>
  \/ \E t \in DOMAIN th : Noise_N(t) /\ UNCHANGED <<ig, qam, bw, ui>>
  \/ \E t \in DOMAIN th : Return(t) /\ UNCHANGED <<ig, qam, bw, ui>>

Spec == Init /\ [][Next]_vars

(***************************************************************************)
(* transmit as a function: what one call computes when nothing else runs.  *)
(* seed is the state of np.random when the call starts.                    *)
(***************************************************************************)
(* lines 149-154 and 164-168 *)
Amplify(link, uu, seed) ==
  IF link.post_boost = TRUE
  THEN IF Size(link.alpha) # 1
       THEN [err |-> "Exception", val |-> uu, seed |-> seed]
       ELSE LET r == ASE_noise(link, uu.n, seed)
            IN  IF r.err # "none"
                THEN [err |-> r.err, val |-> uu, seed |-> seed + 1]
                ELSE [err |-> "none", val |-> AddNoise(ApplyGain(link, uu), r.tok),
                      seed |-> seed + 1]
  ELSE [err |-> "none", val |-> uu, seed |-> seed]

(* lines 147-154 and the body of the loop, lines 159-168 *)
Span(link, profile, uu, seed) ==
  LET r == DDFssprop(uu, link.dt, link.dz, link.nz, link.alpha,
                     Some(profile.BETA2), Some(profile.GAMMA))
  IN  IF r.err # "none" THEN [err |-> r.err, val |-> uu, seed |-> seed]
      ELSE Amplify(link, r.val, seed)

RECURSIVE Spans(_, _, _, _, _)
Spans(link, profile, uu, span_i, seed) ==
  IF span_i >= link.n_spans THEN [err |-> "none", val |-> uu, seed |-> seed]
  ELSE LET r == Span(link, profile, uu, seed)
       IN  IF r.err # "none" THEN r
           ELSE Spans(link, profile, r.val, span_i + 1, r.seed)

transmit(link, input, seed) ==
  LET profile == Get_Beta_Gamma_Profile(link.alpha, link.beta2, link.gamma,
                                        link.dz, link.nz, link.Rad_roots0)
  IN  IF profile.err # "none" THEN [err |-> profile.err, val |-> input, seed |-> seed]
      ELSE IF link.n_spans = 1 THEN Span(link, profile, input, seed)
      ELSE Spans(link, profile, input, 0, seed)

(* what the caller of a finished call got: the exception, or the field *)
Done(t) == th[t].pc = "idle" /\ th[t].res # "none"
Returned(t) == Done(t) /\ th[t].res = "returned"
NoField == Field(0, 0)
Outcome(t) ==
  [err |-> th[t].err,
   val |-> IF th[t].res = "returned" THEN heap[th[t].ret] ELSE NoField]
Result(r) == [err |-> r.err, val |-> IF r.err = "none" THEN r.val ELSE NoField]

(***************************************************************************)
(* The claims about the link.                                              *)
(***************************************************************************)
RECURSIVE Chain(_, _, _, _)
(* n calls of transmit in sequence, each fed with the previous output *)
Chain(link, u, n, seed) ==
  IF n = 0 THEN [err |-> "none", val |-> u, seed |-> seed]
  ELSE LET r == transmit(link, u, seed)
       IN  IF r.err # "none" THEN r ELSE Chain(link, r.val, n - 1, r.seed)

(* the otherwise identical link with a single span *)
SingleSpan == Constructor([args EXCEPT !.n_spans = 1])

(* C1: without noise, a finished transmit call of a link with n_spans = n  *)
(* >= 1 ends as n calls in sequence of the single-span link do, each fed   *)
(* with the previous output: the same field, or the same exception.        *)
C1_SpansCompose ==
  \A t \in DOMAIN th :
    (Done(t) /\ ~self.noise /\ self.n_spans >= 1) =>
      Outcome(t) = Result(Chain(SingleSpan, th[t].in0, self.n_spans, 0))

C1_Witness ==
  \E t \in DOMAIN th :
    /\ Returned(t) /\ ~self.noise /\ self.n_spans >= 2 /\ self.post_boost
    /\ self.beta2 # 0 /\ self.gamma # 0 /\ self.nz >= 2
    /\ heap[th[t].ret] # th[t].in0

(* C2: with an array alpha of more than one element and post_boost, a      *)
(* finished call has raised the configuration error of lines 151/166, and  *)
(* no propagation step was taken before.                                   *)
C2_ConfigErrorFirst ==
  \A t \in DOMAIN th :
    (Done(t) /\ self.alpha.vec /\ Size(self.alpha) > 1 /\ self.post_boost) =>
      /\ th[t].res = "raised"
      /\ th[t].err = "Exception"
      /\ th[t].steps = 0

(* C3: the operations of a call come span by span: nz propagation steps,   *)
(* then with post_boost one gain and after it the noise; a returned call   *)
(* has done this n_spans times, and the noise of the last span is the last *)
(* operator of the returned field (no gain scales it).                     *)
SpanLog(link) ==
  <<[e |-> "prop", n |-> link.nz]>> \o
  (IF link.post_boost THEN <<[e |-> "gain", n |-> 1], [e |-> "noise", n |-> 1]>>
   ELSE <<>>)
RECURSIVE Repeat(_, _)
Repeat(s, n) == IF n <= 0 THEN <<>> ELSE s \o Repeat(s, n - 1)
IsPrefix(s, w) == Len(s) <= Len(w) /\ SubSeq(w, 1, Len(s)) = s
Last(s) == s[Len(s)]

C3_SpanOrder ==
  \A t \in DOMAIN th :
    /\ IsPrefix(th[t].log, Repeat(SpanLog(self), self.n_spans))
    /\ Returned(t) =>
         /\ th[t].log = Repeat(SpanLog(self), self.n_spans)
         /\ th[t].steps = self.n_spans * self.nz
         /\ (self.post_boost /\ self.noise /\ self.n_spans >= 1) =>
              Last(heap[th[t].ret].ops).k = "noise"

C3_Witness ==
  \E t \in DOMAIN th :
    /\ Returned(t) /\ self.n_spans >= 2 /\ self.post_boost /\ self.noise
    /\ self.nz >= 2 /\ Len(th[t].log) >= 6

(* C4: gain exponent + nz times the exponent of one step = 0, and with     *)
(* post_boost, no noise, a scalar alpha and beta2 = gamma = 0 a call on an *)
(* even number of samples returns a field equal to its input.              *)
C4_GainInvertsLoss ==
  /\ ~self.alpha.vec =>
       Plus(Num(0, 2 * self.gain.v[1]),
            Times(self.nz, Times(-2 * self.dz, self.alpha.v[1]))) = Zero
  /\ \A t \in DOMAIN th :
       (Done(t) /\ self.post_boost /\ ~self.noise /\ ~self.alpha.vec
          /\ self.beta2 = 0 /\ self.gamma = 0 /\ self.n_spans >= 1
          /\ self.nz >= 1 /\ th[t].in0.n % 2 = 0) =>
         /\ th[t].res = "returned"
         /\ heap[th[t].ret] = th[t].in0

C4_Witness ==
  \E t \in DOMAIN th :
    /\ Returned(t) /\ self.post_boost /\ ~self.noise /\ ~self.alpha.vec
    /\ self.beta2 = 0 /\ self.gamma = 0 /\ self.n_spans >= 2 /\ self.nz >= 2
    /\ self.dz >= 2 /\ self.alpha.v[1] # Zero
    /\ heap[th[t].ret] = th[t].in0

(* C6: with a scalar alpha, no boost, no noise and beta2 = gamma = 0 the   *)
(* returned field is the input with its power scaled by                    *)
(* exp(-alpha*dz*nz) per span, alpha as passed to the constructor.         *)
C6_LossPerMetre ==
  \A t \in DOMAIN th :
    (Returned(t) /\ ~self.alpha.vec /\ ~self.post_boost /\ ~self.noise
       /\ self.beta2 = 0 /\ self.gamma = 0) =>
      heap[th[t].ret] =
        ScaleBy(th[t].in0,
                Num(-2 * (args.alpha.v[1] * args.dz * args.nz * args.n_spans), 0))

(* C7: the array passed to transmit holds, during the call and after it,   *)
(* the samples it held when the call was made; the arrays the callers own  *)
(* are never written.                                                      *)
C7_InputUntouched ==
  /\ \A r \in InputRefs : heap[r] = Inputs[r]
  /\ \A t \in DOMAIN th : th[t].input # 0 => heap[th[t].input] = th[t].in0

C7_Witness ==
  \E t \in DOMAIN th :
    /\ Returned(t) /\ self.post_boost /\ self.noise /\ self.n_spans >= 1
    /\ th[t].ret # th[t].input
    /\ heap[th[t].ret] # th[t].in0
    /\ th[t].input \notin InputRefs

Started == \E t \in DOMAIN th : th[t].pc # "idle" \/ th[t].calls > 0
ProfileOf(link) ==
  Get_Beta_Gamma_Profile(link.alpha, link.beta2, link.gamma, link.dz, link.nz,
                         link.Rad_roots0)

Config(link) == [link EXCEPT !.BETA2 = None, !.GAMMA = None]

C9_ConfigUnchanged ==
  /\ Config(self) = Constructor(args)
  /\ self.D_z = None
  /\ span_length(self) = self.dz * self.nz
  /\ n_spans(self) = args.n_spans

C9_Witness ==
  \E t \in DOMAIN th :
    /\ Done(t) /\ th[t].res = "raised" /\ th[t].calls >= 2
    /\ self.BETA2.some /\ self.gamma < 0

(***************************************************************************)
(* Two threads calling transmit on the same link object.  Python switches  *)
(* threads between bytecodes, so every line of transmit above is a step    *)
(* of its own and the two calls interleave freely.  Each thread makes one  *)
(* call; the links are those without noise.                                *)
(***************************************************************************)
InitPar ==
  /\ InitLink
  /\ args.dz = 1 /\ args.gamma = -1 /\ ~args.noise /\ ~args.npfloat
  /\ th = [t \in {1, 2} |-> [Idle EXCEPT !.quota = 1]]
  /\ ig = NoCall
  /\ NoOther

SpecPar == InitPar /\ [][Next]_vars

(* C10: with noise disabled, a call that ran concurrently with the calls   *)
(* of another thread on the same link ends as the same call run alone      *)
(* does: the same field, or the same exception.                            *)
C10_ConcurrentAsAlone ==
  \A t \in DOMAIN th :
    (Done(t) /\ ~self.noise) =>
      Outcome(t) = Result(transmit(self, th[t].in0, th[t].seed0))

C10_Witness ==
  \E t, u \in DOMAIN th :
    /\ t # u /\ ~self.noise
    /\ Returned(t) /\ heap[th[t].ret] # th[t].in0
    /\ th[u].pc = "l144"
    /\ th[t].input = th[u].input

(***************************************************************************)
(* The integrators called directly.  _DDFssprop is one step of the model;  *)
(* _ssprop goes through its loops pass by pass, because the outcome of its *)
(* convergence test is not a function of the symbolic field.               *)
(***************************************************************************)
IntInputs == {Field(2, 1), Field(3, 2), Field(2, 0)}
IntAlphas ==
  {Scalar(Num(x, 0)) : x \in 0..MaxAlpha} \cup
  {Array(<<Num(1, 0), Num(2, 0)>>), Array(<<Num(1, 0), Num(1, 0), Num(2, 0)>>)}
Constant(nz, c) == Some([i \in 1..nz |-> c])
(* a profile that changes from step to step, as for a fiber with loss *)
Decaying(nz, c) == Some([i \in 1..nz |-> [c EXCEPT !.z = Num(i - 1, 0)]])
Profiles(nz, c) == {Constant(nz, ZeroCoef), Constant(nz, c), Decaying(nz, c)}
Betaps == {<<>>, <<0, 0, 0>>, <<0, 0, 1>>}

IntArgs ==
  {[NoArg EXCEPT !.fn = "_DDFssprop", !.u0 = u, !.dt = 1, !.dz = dz, !.nz = nz,
                 !.alpha = a, !.D = d, !.R = r] :
     u \in IntInputs, dz \in {1, 2}, nz \in 0..MaxNz, a \in IntAlphas,
     d \in UNION {Profiles(n, Coef(-1, 1, 1, Zero)) : n \in 0..MaxNz},
     r \in UNION {Profiles(n, Coef(1, 1, 1, Zero)) : n \in 0..MaxNz}}
  \cup
  {[NoArg EXCEPT !.fn = "_ssprop", !.u0 = u, !.dt = 1, !.dz = dz, !.nz = nz,
                 !.alpha = a, !.betap = b, !.gamma = g, !.maxiter = m] :
     u \in IntInputs, dz \in {1, 2}, nz \in 0..MaxNz, a \in IntAlphas,
     b \in Betaps, g \in {0, 1}, m \in 0..MaxIter}

(* no link is used: one with the defaults of the constructor is there *)
DefaultArgs ==
  [dt |-> 1, dz |-> 1, nz |-> 1, alpha |-> Scalar(0), beta2 |-> 1, gamma |-> -1,
   verbose |-> FALSE, n_spans |-> 1, post_boost |-> FALSE, noise |-> FALSE,
   noise_figure |-> 3, center_frequency |-> 1931, npfloat |-> FALSE,
   Rad_roots0 |-> "real"]

InitInt ==
  /\ args = DefaultArgs
  /\ self = Constructor(args)
  /\ heap = Inputs
  /\ rng = 0
  /\ th = [t \in {} |-> Idle]
  /\ ig \in {[NoCall EXCEPT !.pc = "start", !.arg = a] : a \in IntArgs}
  /\ NoOther

(* _DDFssprop(u0, dt, dz, nz, alpha, D, R) *)
DDFssprop_Call ==
  /\ ig.pc = "start" /\ ig.arg.fn = "_DDFssprop"
  /\ LET a == ig.arg
         r == DDFssprop(a.u0, a.dt, a.dz, a.nz, a.alpha, a.D, a.R)
     IN  ig' = [ig EXCEPT !.pc = "done", !.err = r.err, !.u0 = a.u0, !.u1 = r.val,
                          !.steps = r.steps, !.fresh = r.fresh]

(* a fault: the number of samples is not looked at *)
ssprop_Enter_NoAssert ==
  /\ ig.pc = "start" /\ ig.arg.fn = "_ssprop"
  /\ LET a == ig.arg
     IN  IF Size(a.alpha) # 1 /\ Size(a.alpha) # a.nz
         THEN ig' = [ig EXCEPT !.pc = "done", !.err = "Exception"]
         ELSE ig' = [ig EXCEPT !.pc = "step", !.u0 = a.u0, !.u1 = a.u0, !.iz = 0]
(* _ssprop, lines 72-85.  ufft is the transform of u1 whenever a step      *)
(* starts (lines 85 and 96-97), so uhalf is computed from u1.              *)
ssprop_Enter ==
  /\ ig.pc = "start" /\ ig.arg.fn = "_ssprop"
  /\ LET a == ig.arg
     IN  IF a.u0.n % 2 # 0
         THEN ig' = [ig EXCEPT !.pc = "done", !.err = "AssertionError"]
         ELSE IF Size(a.alpha) # 1 /\ Size(a.alpha) # a.nz
         THEN ig' = [ig EXCEPT !.pc = "done", !.err = "Exception"]
         ELSE ig' = [ig EXCEPT !.pc = "step", !.u0 = a.u0, !.u1 = a.u0, !.iz = 0]

(* lines 86-92 *)
ssprop_Step ==
  /\ ig.pc = "step"
  /\ LET a == ig.arg
         alpha_step == AlphaStep(a.alpha, ig.iz, a.nz)
     IN  IF ig.iz < a.nz
         THEN ig' = [ig EXCEPT !.pc = "iter", !.ii = 0, !.alpha_step = alpha_step,
                               !.uhalf = LinearHalf(ig.u1, alpha_step, a.betap,
                                                    a.dt, a.dz)]
         ELSE ig' = [ig EXCEPT !.pc = "ret"]

(* a fault: the passes of the loop over ii are not counted *)
ssprop_Iterate_NoCount ==
  /\ ig.pc = "iter"
  /\ LET a == ig.arg
         uv == LinearHalf(Rotate2(ig.uhalf, a.gamma, ig.u1, ig.u0, a.dz),
                          ig.alpha_step, a.betap, a.dt, a.dz)
     IN  IF ig.ii < a.maxiter
         THEN \E c \in Converged(uv, ig.u1) :
                IF c
                THEN ig' = [ig EXCEPT !.u1 = uv, !.fresh = TRUE, !.pc = "endstep",
                                      !.iters = Append(@, ig.ii + 1),
                                      !.stop = Append(@, "tol")]
                ELSE ig' = [ig EXCEPT !.u1 = uv, !.fresh = TRUE]
         ELSE ig' = [ig EXCEPT !.pc = "endstep", !.iters = Append(@, ig.ii),
                               !.stop = Append(@, "maxiter")]
(* lines 93-104: one pass of the loop over ii.  The warning is tied to     *)
(* ii == maxiter.                                                          *)
ssprop_Iterate ==
  /\ ig.pc = "iter"
  /\ LET a == ig.arg
         uv == LinearHalf(Rotate2(ig.uhalf, a.gamma, ig.u1, ig.u0, a.dz),
                          ig.alpha_step, a.betap, a.dt, a.dz)
     IN  IF ig.ii < a.maxiter
         THEN \E c \in Converged(uv, ig.u1) :
                IF c
                THEN ig' = [ig EXCEPT !.u1 = uv, !.fresh = TRUE, !.pc = "endstep",
                                      !.iters = Append(@, ig.ii + 1),
                                      !.stop = Append(@, "tol")]
                ELSE ig' = [ig EXCEPT !.u1 = uv, !.fresh = TRUE, !.ii = @ + 1,
                                      !.warnings = IF ig.ii = a.maxiter THEN @ + 1
                                                   ELSE @]
         ELSE ig' = [ig EXCEPT !.pc = "endstep", !.iters = Append(@, ig.ii),
                               !.stop = Append(@, "maxiter")]

(* line 105 and the next pass of the loop over iz *)
ssprop_EndStep ==
  /\ ig.pc = "endstep"
  /\ ig' = [ig EXCEPT !.pc = "step", !.u0 = ig.u1, !.iz = @ + 1, !.steps = @ + 1]

(* line 107 *)
ssprop_Return ==
  /\ ig.pc = "ret"
  /\ ig' = [ig EXCEPT !.pc = "done"]

NextInt ==
  \/ DDFssprop_Call /\ UNCHANGED <<args, self, heap, rng, th, qam, bw, ui>>
  \/ ssprop_Enter /\ UNCHANGED <<args, self, heap, rng, th, qam, bw, ui>>
  \/ ssprop_Step /\ UNCHANGED <<args, self, heap, rng, th, qam, bw, ui>>
  \/ ssprop_Iterate /\ UNCHANGED <<args, self, heap, rng, th, qam, bw, ui>>
  \/ ssprop_EndStep /\ UNCHANGED <<args, self, heap, rng, th, qam, bw, ui>>
  \/ ssprop_Return /\ UNCHANGED <<args, self, heap, rng, th, qam, bw, ui>>

SpecInt == InitInt /\ [][NextInt]_vars

(* the calls C5 is about: a scalar alpha > 0, no dispersion, no            *)
(* nonlinearity, and a field was returned                                  *)
LossOnly ==
  /\ ig.pc = "done" /\ ig.err = "none"
  /\ ~ig.arg.alpha.vec /\ ig.arg.alpha.v[1].r > 0
  /\ \/ /\ ig.arg.fn = "_DDFssprop"
        /\ ig.arg.D = Constant(ig.arg.nz, ZeroCoef)
        /\ ig.arg.R = Constant(ig.arg.nz, ZeroCoef)
     \/ /\ ig.arg.fn = "_ssprop"
        /\ AllZero(ig.arg.betap) /\ ig.arg.gamma = 0
(* the input with its power scaled by exp(-alpha*dz*nz) *)
Attenuated ==
  ScaleBy(ig.arg.u0, Num(-2 * ig.arg.alpha.v[1].r * ig.arg.dz * ig.arg.nz, 0))

(* C5, as stated: such a call of either integrator returns the input with  *)
(* the power of every sample scaled by exp(-alpha*dz*nz).                  *)
C5_LossOnlyAnyMaxiter == LossOnly => ig.u1 = Attenuated

(* C5, amended: it does for _DDFssprop, and for _ssprop when maxiter >= 1; *)
(* every step of _ssprop then scales the power by exp(-alpha*dz).  With    *)
(* maxiter = 0 _ssprop makes no pass and returns its input.                *)
C5_LossOnly ==
  /\ (LossOnly /\ (ig.arg.fn = "_ssprop" => ig.arg.maxiter >= 1)) =>
       /\ ig.u1 = Attenuated
       /\ ig.steps = ig.arg.nz
  /\ (LossOnly /\ ig.arg.fn = "_ssprop" /\ ig.arg.maxiter = 0) => ig.u1 = ig.arg.u0
  /\ (ig.pc = "endstep" /\ ig.arg.maxiter >= 1 /\ ~ig.arg.alpha.vec
        /\ AllZero(ig.arg.betap) /\ ig.arg.gamma = 0) =>
       ig.u1 = ScaleBy(ig.u0, Num(-2 * ig.arg.alpha.v[1].r * ig.arg.dz, 0))

C5_Witness ==
  /\ LossOnly /\ ig.arg.fn = "_ssprop" /\ ig.arg.maxiter >= 2 /\ ig.arg.nz >= 2
  /\ ig.arg.dz >= 2 /\ ig.u1 = Attenuated /\ ig.u1 # ig.arg.u0

(***************************************************************************)
(* The noise and the generator it is drawn from.                           *)
(***************************************************************************)
(* C11: transmit draws from no process-wide generator: when a call has     *)
(* finished, np.random is in the state it had when the call was made.      *)
C11_NoHiddenRandomState ==
  \A t \in DOMAIN th : Done(t) => rng = th[t].seed0

(* the field one span makes of u without the amplifier noise *)
BoostedSpan(link, u) ==
  ApplyGain(link, DDFssprop(u, link.dt, link.dz, link.nz, link.alpha,
                            Some(ProfileOf(link).BETA2),
                            Some(ProfileOf(link).GAMMA)).val)

(* C12: with noise disabled a finished call ends as the call made with the *)
(* generator in its initial state does, whatever the generator's state     *)
(* was; the returned field holds no noise operator, and with post_boost    *)
(* and one span it is the propagated field times the span gain.            *)
C12_NoNoiseWhenDisabled ==
  \A t \in DOMAIN th :
    (Done(t) /\ ~self.noise) =>
      /\ Outcome(t) = Result(transmit(self, th[t].in0, 0))
      /\ Returned(t) =>
           /\ \A i \in 1..Len(heap[th[t].ret].ops) :
                heap[th[t].ret].ops[i].k # "noise"
           /\ (self.post_boost /\ self.n_spans = 1) =>
                heap[th[t].ret] = BoostedSpan(self, th[t].in0)

C12_Witness ==
  \E t \in DOMAIN th :
    /\ Returned(t) /\ ~self.noise /\ self.post_boost /\ self.n_spans = 1
    /\ th[t].seed0 > 0 /\ rng > th[t].seed0
    /\ self.nz >= 1 /\ self.alpha.v[1] # Zero /\ self.beta2 # 0
    /\ heap[th[t].ret] # th[t].in0

(***************************************************************************)
(* The claims about the integrators called directly.                       *)
(***************************************************************************)
(* C13: a call of _DDFssprop or _ssprop with an odd number of samples      *)
(* takes no propagation step and ends with the failed assertion of line    *)
(* 73; no field is returned.                                               *)
C13_OddSamplesRejected ==
  (ig.arg.fn \in {"_DDFssprop", "_ssprop"} /\ ig.arg.u0.n % 2 # 0) =>
    /\ ig.pc \in {"start", "done"}
    /\ ig.steps = 0 /\ ~ig.fresh
    /\ ig.pc = "done" => ig.err = "AssertionError"

C13_Witness ==
  /\ ig.pc = "done" /\ ig.arg.fn = "_ssprop" /\ ig.arg.u0.n % 2 # 0
  /\ ig.arg.nz >= 1 /\ ig.arg.maxiter >= 1 /\ ~ig.arg.alpha.vec
  /\ ig.err = "AssertionError" /\ ig.steps = 0

(* C14: a call of _DDFssprop that has steps to take (nz >= 1) with an      *)
(* alpha that is neither a scalar nor a sequence of nz entries ends with   *)
(* an error, and takes no step.                                            *)
C14_AlphaLengthChecked ==
  (ig.pc = "done" /\ ig.arg.fn = "_DDFssprop" /\ ig.arg.u0.n % 2 = 0
     /\ ig.arg.nz >= 1 /\ ig.arg.alpha.vec /\ Size(ig.arg.alpha) # ig.arg.nz) =>
    /\ ig.err # "none"
    /\ ig.steps = 0

(* the steps of the call so far whose iteration used up maxiter passes     *)
(* without meeting the tolerance                                           *)
NotConverged == {i \in 1..Len(ig.stop) : ig.stop[i] = "maxiter"}

(* C15: in a call of _ssprop with maxiter >= 1 on a field that is not zero *)
(* one warning has been emitted for every step whose iteration did not     *)
(* meet the tolerance within maxiter passes, and the call goes on to       *)
(* return a field.                                                         *)
C15_WarnsOnNonConvergence ==
  (ig.arg.fn = "_ssprop" /\ ig.arg.maxiter >= 1 /\ ~IsZeroField(ig.arg.u0)
     /\ ig.pc \in {"endstep", "step", "ret", "done"}) =>
    ig.warnings = Cardinality(NotConverged)

(* steps i..nz of the split-step scheme on the field u with the arguments  *)
(* a of a _DDFssprop call: the half linear step with D[i], the rotation    *)
(* with R[i] by the power of the field the step started from, the second   *)
(* half linear step and, if loss is set, the factor exp(-alpha/2*dz) on    *)
(* the field                                                               *)
RECURSIVE SplitSteps(_, _, _, _)
SplitSteps(a, u, i, loss) ==
  IF i > a.nz THEN u
  ELSE LET beta == a.D.v[i]
           gamma == a.R.v[i]
           uhalf == HalfStep(u, beta, a.dt, a.dz)
           uv == HalfStep(Rotate(uhalf, gamma, Len(u.ops), a.dz), beta, a.dt, a.dz)
       IN  SplitSteps(a, IF loss THEN ScaleBy(uv, Times(-2 * a.dz, a.alpha.v[1]))
                         ELSE uv,
                      i + 1, loss)

(* the calls of _DDFssprop with a scalar alpha that returned a field *)
ProfileMode ==
  /\ ig.pc = "done" /\ ig.err = "none" /\ ig.arg.fn = "_DDFssprop"
  /\ ~ig.arg.alpha.vec

(* C16, as stated: the returned field is the input after nz steps made of  *)
(* half linear step, rotation and half linear step with D[i] and R[i],     *)
(* with no attenuation factor.                                             *)
C16_NoSeparateAttenuation ==
  ProfileMode => ig.u1 = SplitSteps(ig.arg, ig.arg.u0, 1, FALSE)

(* C16, amended: every step is half linear step, rotation and half linear  *)
(* step with D[i] and R[i], and ends with the field multiplied by          *)
(* exp(-alpha/2*dz).                                                       *)
C16_StepsThenAttenuation ==
  ProfileMode =>
    /\ ig.u1 = SplitSteps(ig.arg, ig.arg.u0, 1, TRUE)
    /\ ig.steps = ig.arg.nz

C16_Witness ==
  /\ ProfileMode /\ ig.arg.nz >= 2 /\ ig.arg.alpha.v[1] # Zero
  /\ ig.arg.D.v[1] # ig.arg.D.v[2] /\ ig.arg.R.v[1] # ig.arg.R.v[2]
  /\ ~IsZeroField(ig.arg.u0)
  /\ ig.u1 # SplitSteps(ig.arg, ig.arg.u0, 1, FALSE)

(***************************************************************************)
(* The claims about the profile and the noise power.                       *)
(***************************************************************************)
(* the profile entry c is the value x at the start of the fiber *)
StartsAt(c, x) == c.root = "real" /\ c.z = Zero /\ c.s * c.m = x

(* C17: the profile a call has computed starts at the configured values:   *)
(* BETA2[0] = beta2 and GAMMA[0] = gamma, whatever their signs (stated     *)
(* for a numpy that returns the real root of the cubic first).             *)
C17_ProfileStartsAtInputs ==
  \A t \in DOMAIN th :
    (th[t].pc = "l143" /\ self.Rad_roots0 = "real") =>
      /\ StartsAt(th[t].profile.BETA2[1], self.beta2)
      /\ StartsAt(th[t].profile.GAMMA[1], self.gamma)

(* C18: with nz <= 0 Get_Beta_Gamma_Profile raises (ValueError for nz < 0, *)
(* IndexError for nz = 0): no call gets past line 142, every finished call *)
(* has raised that error, and neither a call nor the link holds a profile. *)
C18_NoStepsNoProfile ==
  self.nz <= 0 =>
    /\ ProfileOf(self).err = (IF self.nz < 0 THEN "ValueError" ELSE "IndexError")
    /\ self.BETA2 = None /\ self.GAMMA = None
    /\ \A t \in DOMAIN th :
         /\ th[t].pc \in {"idle", "l142"}
         /\ th[t].profile = NoProfile
         /\ Done(t) => (th[t].res = "raised" /\ th[t].err = ProfileOf(self).err)

C18_Witness ==
  \E t \in DOMAIN th :
    /\ self.nz = 0 /\ ~self.alpha.vec /\ self.beta2 # 0 /\ self.n_spans >= 1
    /\ Done(t) /\ th[t].calls >= 2 /\ th[t].err = "IndexError"

(* C19: no profile is built from a non-real root: every entry of a profile *)
(* a call has computed comes from a real root of its cubic.                *)
C19_NonRealRootRejected ==
  \A t \in DOMAIN th :
    \A i \in 1..Len(th[t].profile.BETA2) :
      /\ th[t].profile.BETA2[i].root = "real"
      /\ th[t].profile.GAMMA[i].root = "real"

(* C20: no call ends with the division by zero of _ASE_noise_power, and no *)
(* field holds a noise whose power is undefined (nan).                     *)
C20_NoisePowerClamped ==
  /\ \A t \in DOMAIN th : th[t].err # "ZeroDivisionError"
  /\ \A r \in DOMAIN heap :
       \A i \in 1..Len(heap[r].ops) :
         heap[r].ops[i].k = "noise" => heap[r].ops[i].P.k # "nan"

(***************************************************************************)
(* Energy.  The half linear step multiplies the spectrum by                *)
(* exp(1j*beta*w**2/2*dz/2) and the rotation multiplies the field by       *)
(* exp(1j*gamma*|u1|**2*dz): for real beta and gamma (the profile is made  *)
(* of real parts) both have modulus one, and by Parseval's identity        *)
(* neither changes sum(|q|^2).  Scalings and noise do.                     *)
(***************************************************************************)
UnitModulus(tok) == tok.k \in {"lin", "nl", "linp", "nl2"}

(* C21: a call of _DDFssprop with alpha = 0 that returns a field returns   *)
(* the input multiplied (in time or in frequency) by factors of modulus    *)
(* one only, so with the energy of the input.                              *)
C21_LosslessKeepsEnergy ==
  (ProfileMode /\ ig.arg.alpha.v[1] = Zero) =>
    /\ ig.u1.src = ig.arg.u0.src /\ ig.u1.n = ig.arg.u0.n
    /\ \A i \in 1..Len(ig.u1.ops) : UnitModulus(ig.u1.ops[i])

C21_Witness ==
  /\ ProfileMode /\ ig.arg.alpha.v[1] = Zero /\ ig.arg.nz >= 2
  /\ ig.arg.D.v[1].s # 0 /\ ig.arg.R.v[1].s # 0 /\ ~IsZeroField(ig.arg.u0)
  /\ Len(ig.u1.ops) >= 6

(* C25: in the field a call of _DDFssprop returns, every nonlinear         *)
(* rotation takes its phase from the field it is applied to, the one made  *)
(* of all the operators before it (the field after the first half step).   *)
C25_RotationByHalfStepField ==
  ProfileMode =>
    \A i \in 1..Len(ig.u1.ops) :
      ig.u1.ops[i].k = "nl" => ig.u1.ops[i].at = i - 1

(* C27: a call of _ssprop on a field of zeros that reaches the convergence *)
(* test (nz >= 1, maxiter >= 1) ends with an error and returns no field.   *)
C27_ZeroNormIsFatal ==
  (ig.pc = "done" /\ ig.arg.fn = "_ssprop" /\ IsZeroField(ig.arg.u0)
     /\ ig.arg.u0.n % 2 = 0 /\ ig.arg.nz >= 1 /\ ig.arg.maxiter >= 1
     /\ ~ig.arg.alpha.vec) =>
    ig.err # "none"

(***************************************************************************)
(* The claims about the amplifier branch and the number of spans.          *)
(***************************************************************************)
(* the same link with the noise flag off *)
Noiseless == Constructor([args EXCEPT !.noise = FALSE])

(* C22: without post_boost no random number is drawn, no field holds a     *)
(* noise operator, and every finished call ends as the call of the link    *)
(* with noise disabled does.                                               *)
C22_NoiseOnlyWithBoost ==
  ~self.post_boost =>
    /\ rng = 0
    /\ \A r \in DOMAIN heap :
         \A i \in 1..Len(heap[r].ops) : heap[r].ops[i].k # "noise"
    /\ \A t \in DOMAIN th :
         /\ \A i \in 1..Len(th[t].log) : th[t].log[i].e = "prop"
         /\ Done(t) => Outcome(t) = Result(transmit(Noiseless, th[t].in0, 0))

C22_Witness ==
  \E t \in DOMAIN th :
    /\ Returned(t) /\ self.noise /\ ~self.post_boost /\ th[t].calls >= 2
    /\ self.n_spans = 1 /\ self.nz >= 1 /\ self.alpha.v[1] # Zero
    /\ heap[th[t].ret] # th[t].in0

(* C30: a link with n_spans = 0, a scalar alpha and nz >= 1 takes no       *)
(* propagation step, applies no gain and draws no noise; every finished    *)
(* call has returned, and returned its input array with its samples        *)
(* unchanged.                                                              *)
C30_NoSpans ==
  (self.n_spans = 0 /\ ~self.alpha.vec /\ self.nz >= 1) =>
    /\ rng = 0
    /\ \A t \in DOMAIN th :
         /\ th[t].steps = 0 /\ th[t].log = <<>>
         /\ Done(t) =>
              /\ th[t].res = "returned"
              /\ th[t].ret = th[t].input
              /\ heap[th[t].ret] = th[t].in0

C30_Witness ==
  \E t \in DOMAIN th :
    /\ self.n_spans = 0 /\ ~self.alpha.vec /\ self.nz >= 1
    /\ self.post_boost /\ self.noise /\ self.alpha.v[1] # Zero
    /\ Returned(t) /\ th[t].calls >= 2 /\ th[t].in0.n % 2 # 0

(***************************************************************************)
(* Termination of _ssprop.  The interpreter keeps running the call: every  *)
(* step of it that can be taken is taken eventually.                       *)
(***************************************************************************)
InitSsprop == InitInt /\ ig.arg.fn = "_ssprop"

NextSsprop ==
  \/ ssprop_Enter /\ UNCHANGED <<args, self, heap, rng, th, qam, bw, ui>>
  \/ ssprop_Step /\ UNCHANGED <<args, self, heap, rng, th, qam, bw, ui>>
  \/ ssprop_Iterate /\ UNCHANGED <<args, self, heap, rng, th, qam, bw, ui>>
  \/ ssprop_EndStep /\ UNCHANGED <<args, self, heap, rng, th, qam, bw, ui>>
  \/ ssprop_Return /\ UNCHANGED <<args, self, heap, rng, th, qam, bw, ui>>

SpecIntLive == InitSsprop /\ [][NextSsprop]_vars /\ WF_vars(NextSsprop)

(* the passes of the loop over ii are counted per finished step; a step    *)
(* stops at the tolerance or at the end of range(maxiter)                  *)
IterationsBounded ==
  ig.arg.fn = "_ssprop" =>
    /\ ig.ii <= ig.arg.maxiter
    /\ Len(ig.iters) = Len(ig.stop)
    /\ \A i \in 1..Len(ig.iters) :
         /\ ig.iters[i] <= ig.arg.maxiter
         /\ ig.arg.maxiter >= 1 => ig.iters[i] >= 1
         /\ ig.stop[i] = "maxiter" => ig.iters[i] = ig.arg.maxiter
    /\ ig.pc \in {"step", "ret", "done"} =>
         (ig.u0 = ig.u1 /\ (ig.err = "none" => Len(ig.iters) = ig.steps))
    /\ (ig.pc = "done" /\ ig.err = "none") => ig.steps = ig.arg.nz

(* C26: every call of _ssprop ends; each of its nz steps makes at most     *)
(* maxiter passes (at least one when maxiter >= 1), a pass that meets the  *)
(* tolerance is the last of its step, the iterate of a step is the start   *)
(* of the next, and the last iterate is returned after nz steps.           *)
C26_Terminates ==
  /\ <>(ig.pc = "done")
  /\ []IterationsBounded

C26_Witness ==
  /\ ig.pc = "done" /\ ig.err = "none" /\ ig.arg.fn = "_ssprop"
  /\ ig.arg.nz >= 2 /\ ig.arg.maxiter >= 2 /\ ig.arg.gamma # 0
  /\ ig.stop = <<"tol", "maxiter">> /\ ig.iters[1] < ig.arg.maxiter

(***************************************************************************)
(* Constellations.  QAMConstellation.__init__ fills the alphabet of an     *)
(* m x n grid and takes its bit patterns from BaseConstellation.gray_code. *)
(***************************************************************************)
MaxGrid == 8

IsPow2(x) == \E k \in 0..x : 2^k = x

(* int(np.ceil(np.log2(x))) for x >= 1 *)
CeilLog2(x) == CHOOSE k \in 0..x : 2^k >= x /\ (k = 0 \/ 2^(k-1) < x)

(* one pass of the first loop of gray_code: a column of zeros before the   *)
(* matrix, stacked on a column of ones before the matrix upside down       *)
Doubled(bit_matrix) ==
  LET r == Len(bit_matrix)
  IN [k \in 1..(2 * r) |-> IF k <= r THEN <<0>> \o bit_matrix[k]
                                     ELSE <<1>> \o bit_matrix[2 * r + 1 - k]]

(* the matrix after the first loop of gray_code has run `passes` times;    *)
(* range(0, passes) is empty for passes <= 0                               *)
RECURSIVE Reflected(_)
Reflected(passes) ==
  IF passes <= 0 THEN << <<0>>, <<1>> >> ELSE Doubled(Reflected(passes - 1))

gray_code_NoFlip(m, n) == Reflected(CeilLog2(m * n) - 1)

(* gray_code: the second loop turns the rows i*n .. (i+1)*n - 1 upside     *)
(* down for i = 1, 3, ... <= m; a slice is clipped to the rows that exist  *)
gray_code(m, n) ==
  LET bit_matrix == Reflected(CeilLog2(m * n) - 1)
      R == Len(bit_matrix)
      Clip(x) == IF x > R THEN R ELSE x
      Row(r) == LET i == r \div n
                    a == Clip(i * n)
                    b == Clip((i + 1) * n)
                IN IF i % 2 = 1 /\ i <= m THEN bit_matrix[(a + b - 1 - r) + 1]
                                          ELSE bit_matrix[r + 1]
  IN [k \in 1..R |-> Row(k - 1)]

(* the point written to alphabet[i*n + j], in halves of the grid spacing   *)
Point(m, n, i, j) == [re |-> 2 * i - (m - 1), im |-> 2 * j - (n - 1)]

Abs2(p) == p.re * p.re + p.im * p.im

Max(S) == CHOOSE x \in S : \A y \in S : y <= x

InitQAM ==
  /\ args = DefaultArgs /\ self = Constructor(args) /\ heap = Inputs /\ rng = 0
  /\ th = [t \in {} |-> Idle]
  /\ ig = NoCall /\ bw = NoBw /\ ui = NoUi
  /\ qam \in {[NoQam EXCEPT !.pc = "new", !.m = m, !.n = n] :
                m \in 1..MaxGrid, n \in 1..MaxGrid}

(* lines 37-41: the points of the grid, all divided by the largest         *)
(* modulus max2 (squared, in quarters); max2 = 0 makes every entry nan     *)
QAM_Alphabet ==
  /\ qam.pc = "new"
  /\ LET alphabet == [k \in 1..(qam.m * qam.n) |->
                        Point(qam.m, qam.n, (k - 1) \div qam.n, (k - 1) % qam.n)]
     IN qam' = [qam EXCEPT !.pc = "alphabet", !.alphabet = alphabet,
                           !.max2 = Max({Abs2(alphabet[k]) : k \in DOMAIN alphabet})]

(* lines 42-43: the bit patterns, and size() in the name *)
QAM_BitMatrix ==
  /\ qam.pc = "alphabet"
  /\ qam' = [qam EXCEPT !.pc = "done", !.bit_matrix = gray_code(qam.m, qam.n),
                        !.name = Len(qam.alphabet)]

NextQAM ==
  \/ QAM_Alphabet /\ UNCHANGED <<args, self, heap, rng, th, ig, bw, ui>>
  \/ QAM_BitMatrix /\ UNCHANGED <<args, self, heap, rng, th, ig, bw, ui>>

SpecQAM == InitQAM /\ [][NextQAM]_vars

Hamming(a, b) == Cardinality({k \in 1..Len(a) : a[k] # b[k]})

(* C23: for every m, n >= 1 the bit matrix of QAMConstellation(m, n) is a  *)
(* 0/1 matrix with m*n rows, one per alphabet symbol, and ceil(log2(m*n))  *)
(* columns (stated here for the grids of at least two points)              *)
C23_OnePatternPerSymbol ==
  (qam.pc = "done" /\ qam.m * qam.n >= 2) =>
     /\ Len(qam.bit_matrix) = qam.m * qam.n
     /\ Len(qam.bit_matrix) = Len(qam.alphabet)
     /\ \A k \in DOMAIN qam.bit_matrix :
          /\ Len(qam.bit_matrix[k]) = CeilLog2(qam.m * qam.n)
          /\ \A c \in DOMAIN qam.bit_matrix[k] : qam.bit_matrix[k][c] \in {0, 1}

(* C28: for m and n powers of two with m*n >= 2 the bit matrix of          *)
(* QAMConstellation(m, n) is a Gray mapping: its m*n rows are pairwise     *)
(* distinct, and the patterns of two symbols next to each other in a row   *)
(* or in a column of the grid differ in exactly one bit                    *)
C28_GrayMapping ==
  (qam.pc = "done" /\ IsPow2(qam.m) /\ IsPow2(qam.n) /\ qam.m * qam.n >= 2) =>
     LET b == qam.bit_matrix
         n == qam.n
         m == qam.m
     IN /\ Len(b) = m * n
        /\ \A k, l \in 1..(m * n) : k # l => b[k] # b[l]
        /\ \A i \in 0..(m - 1), j \in 0..(n - 1) :
             /\ j + 1 < n => Hamming(b[i * n + j + 1], b[i * n + j + 2]) = 1
             /\ i + 1 < m => Hamming(b[i * n + j + 1], b[(i + 1) * n + j + 1]) = 1

C28_Witness ==
  /\ qam.pc = "done" /\ qam.m = 4 /\ qam.n = 4
  /\ Len(qam.bit_matrix) = 16
  /\ qam.bit_matrix[5] = Reflected(3)[8]
  /\ Hamming(qam.bit_matrix[4], qam.bit_matrix[8]) = 1

(***************************************************************************)
(* Helpers.widgets: the noise and path-average checkboxes and the          *)
(* update_alpha callback of the amplification selector.                    *)
(***************************************************************************)
MaxEvents == 3

(* select_noise() and select_path_average(): Checkbox(value=False,         *)
(* disabled=False)                                                         *)
Checkbox == [disabled |-> FALSE, value |-> FALSE]

Amplifications == {"Lossless", "EDFA", "Raman", "other"}

Disabled_KeepValue(w) == [w EXCEPT !.disabled = TRUE]

(* w.disabled = True; w.value = False *)
Disabled(w) == [w EXCEPT !.disabled = TRUE, !.value = FALSE]

(* w.disabled = False; w.value = value *)
Enabled(w, value) == [w EXCEPT !.disabled = FALSE, !.value = value]

InitUI ==
  /\ args = DefaultArgs /\ self = Constructor(args) /\ heap = Inputs /\ rng = 0
  /\ th = [t \in {} |-> Idle]
  /\ ig = NoCall /\ qam = NoQam /\ bw = NoBw
  /\ ui = [NoUi EXCEPT !.noise = Checkbox, !.path_average = Checkbox]

(* update_alpha(choosen_amplification, noise_widget, path_average_widget); *)
(* loadmat tells whether the gain profile file of the Raman branch could   *)
(* be read: if not, the call raises before it touches a widget             *)
update_alpha(choosen_amplification, loadmat) ==
  /\ Len(ui.log) < MaxEvents
  /\ ui' = [CASE choosen_amplification = "Lossless" ->
                   [ui EXCEPT !.noise = Disabled(@), !.path_average = Disabled(@),
                              !.selected_alpha = "Lossless", !.err = "none"]
              [] choosen_amplification = "EDFA" ->
                   [ui EXCEPT !.noise = Enabled(@, FALSE),
                              !.path_average = Enabled(@, TRUE),
                              !.selected_alpha = "EDFA", !.err = "none"]
              [] choosen_amplification = "Raman" /\ loadmat ->
                   [ui EXCEPT !.noise = Disabled(@), !.path_average = Disabled(@),
                              !.selected_alpha = "Raman", !.err = "none"]
              [] choosen_amplification = "Raman" /\ ~loadmat ->
                   [ui EXCEPT !.err = "IOError"]
              [] OTHER -> [ui EXCEPT !.err = "Exception"]
            EXCEPT !.log = Append(ui.log, IF choosen_amplification = "Raman" /\ ~loadmat
                                            THEN "Raman failed"
                                            ELSE choosen_amplification)]

(* the user clicks a checkbox; a disabled one does not react *)
Toggle_noise ==
  /\ Len(ui.log) < MaxEvents
  /\ ~ui.noise.disabled
  /\ ui' = [ui EXCEPT !.noise.value = ~@, !.log = Append(@, "noise")]

Toggle_path_average ==
  /\ Len(ui.log) < MaxEvents
  /\ ~ui.path_average.disabled
  /\ ui' = [ui EXCEPT !.path_average.value = ~@, !.log = Append(@, "path_average")]

NextUI ==
  \/ (\E a \in Amplifications, ok \in BOOLEAN : update_alpha(a, ok))
       /\ UNCHANGED <<args, self, heap, rng, th, ig, qam, bw>>
  \/ Toggle_noise /\ UNCHANGED <<args, self, heap, rng, th, ig, qam, bw>>
  \/ Toggle_path_average /\ UNCHANGED <<args, self, heap, rng, th, ig, qam, bw>>

SpecUI == InitUI /\ [][NextUI]_vars

(* C29: after any sequence of update_alpha calls and of user clicks on     *)
(* enabled checkboxes, a disabled checkbox is not checked: a disabled      *)
(* noise checkbox has value False, and so has a disabled path-average one  *)
C29_DisabledIsUnchecked ==
  /\ ui.noise.disabled => ui.noise.value = FALSE
  /\ ui.path_average.disabled => ui.path_average.value = FALSE

C29_Witness ==
  /\ ui.log = <<"EDFA", "noise", "Lossless">>
  /\ ui.noise.disabled /\ ui.path_average.disabled
  /\ ~ui.noise.value /\ ~ui.path_average.value

(***************************************************************************)
(* QualityAssessment.ModulationEfficiency._compute_bandwidth(t, q), for a  *)
(* time grid of spacing dt = 1.  The signal is given by its spectrum: Q[k] *)
(* is abs(np.fft.fft(q)[k-1])**2, the energy of bin k-1.  Frequencies are  *)
(* in units of 1/(N*dt), N the number of samples.                          *)
(***************************************************************************)
MaxSamples == 4
MaxEnergy == 2

Percentages == {50, 99}

RECURSIVE Sum(_)
Sum(s) == IF s = <<>> THEN 0 ELSE Sum(Front(s)) + s[Len(s)]

(* Q[i] with Python's indexing: a negative index counts from the end *)
At(Q, i) == IF i < 0 THEN Q[Len(Q) + i + 1] ELSE Q[i + 1]

(* np.fft.fftfreq(N, d=1)[i] * N: 0, 1, ..., (N-1)//2, -(N//2), ..., -1 *)
fftfreq(N, i) == IF i <= (N - 1) \div 2 THEN i ELSE i - N

(* self._percentage/100.0*total_energy, compared in hundredths *)
Below(current_energy, percentage, total_energy) ==
  100 * current_energy < percentage * total_energy

InitBW ==
  /\ args = DefaultArgs /\ self = Constructor(args) /\ heap = Inputs /\ rng = 0
  /\ th = [t \in {} |-> Idle]
  /\ ig = NoCall /\ qam = NoQam /\ ui = NoUi
  /\ \E N \in 2..MaxSamples : \E Q \in [1..N -> 0..MaxEnergy] :
       \E percentage \in Percentages :
         bw = [NoBw EXCEPT !.pc = "start", !.Q = Q, !.percentage = percentage]

(* lines 78-83 *)
BW_Enter ==
  /\ bw.pc = "start"
  /\ bw' = [bw EXCEPT !.pc = "while", !.total_energy = Sum(bw.Q),
                      !.current_energy = At(bw.Q, 0), !.i = 1,
                      !.max_i = Len(bw.Q) \div 2]

(* lines 84-88: one test of the loop condition and, if it holds, one pass  *)
(* of the body                                                             *)
BW_While ==
  /\ bw.pc = "while"
  /\ IF Below(bw.current_energy, bw.percentage, bw.total_energy)
       THEN IF bw.i > bw.max_i
              THEN bw' = [bw EXCEPT !.pc = "freq"]
              ELSE bw' = [bw EXCEPT
                     !.current_energy = @ + At(bw.Q, bw.i) + At(bw.Q, -bw.i),
                     !.i = @ + 1]
       ELSE bw' = [bw EXCEPT !.pc = "freq"]

(* lines 89-90: freq_Hz[i] raises IndexError for i >= N *)
BW_Return ==
  /\ bw.pc = "freq"
  /\ IF bw.i >= Len(bw.Q)
       THEN bw' = [bw EXCEPT !.pc = "done", !.err = "IndexError"]
       ELSE bw' = [bw EXCEPT !.pc = "done", !.ret = 2 * fftfreq(Len(bw.Q), bw.i)]

NextBW ==
  \/ BW_Enter /\ UNCHANGED <<args, self, heap, rng, th, ig, qam, ui>>
  \/ BW_While /\ UNCHANGED <<args, self, heap, rng, th, ig, qam, ui>>
  \/ BW_Return /\ UNCHANGED <<args, self, heap, rng, th, ig, qam, ui>>

SpecBW == InitBW /\ [][NextBW]_vars

(* the energy of the bins whose frequency lies in [-f, f] *)
EnergyWithin(Q, f) ==
  Sum([k \in 1..Len(Q) |->
         IF fftfreq(Len(Q), k - 1) <= f /\ -f <= fftfreq(Len(Q), k - 1)
           THEN Q[k] ELSE 0])

(* C24: for a signal of non-zero energy _compute_bandwidth reads the       *)
(* frequency grid at a valid index of a non-negative frequency f, and      *)
(* returns the non-negative width 2f of an interval [-f, f] that holds at  *)
(* least the configured percentage of the total energy                     *)
C24_WidthHoldsPercentage ==
  (bw.pc = "done" /\ bw.total_energy > 0) =>
     /\ bw.err = "none"
     /\ bw.i < Len(bw.Q)
     /\ bw.i <= (Len(bw.Q) - 1) \div 2
     /\ bw.ret >= 0
     /\ 100 * EnergyWithin(bw.Q, fftfreq(Len(bw.Q), bw.i))
          >= bw.percentage * bw.total_energy

====
